---- MODULE Spec2Model ----
(***************************************************************************)
(* One crawl of linkedinScraperService.js (searchLinkedInPeople and the    *)
(* functions it awaits) together with the request handler's client-close   *)
(* callback.  The crawl is one sequential task; an action is the code      *)
(* between two suspension points whose interleaving with the close         *)
(* callback can matter.  The browser's answers (navigation results, page   *)
(* URL, page indicators, extracted records) are inputs chosen with \E;     *)
(* what the request carries and what the site shows on the feed page and   *)
(* in the result-count heading of each search page is chosen at the start. *)
(***************************************************************************)
EXTENDS Integers, Sequences, FiniteSets, TLC

VARIABLES
    pc,                       \* position of the request handler and the crawl task
    cookiesString,            \* raw cookie header given to searchLinkedInPeople
    maxPages,                 \* maxPages given to searchLinkedInPeople
    searchTarget,             \* the request's search target: a URL that parses,
                              \* text that does not parse as a URL, or none
    feedPage,                 \* the elements the feed page shows to getCurrentUserInfo
    displayedTotal,           \* per page, the count in its results heading (0: none found)
    calc,                     \* a call of calculateTotalProfilesToExtract and its result
    cdpMayThrow,              \* the CDP session of a retry can throw in this crawl
    scroll,                   \* a run of the step loop of humanLikeScroll
    item,                     \* a result item given to the record construction
    paging,                   \* a construction of pageUrl from searchUrl and currentPage
    stream,                   \* a run of the page loop with its streaming of records
    setCookieCalls,           \* number of page.setCookie calls
    feedGotos,                \* number of page.goto calls on the feed URL
    setupError,               \* what session setup threw ("none" if nothing)
    currentPage,              \* loop variable of performPeopleSearch
    allResults,               \* performPeopleSearch: allResults
    consecutiveErrorCount,    \* performPeopleSearch: consecutiveErrorCount
    lastSuccessfulPageNumber, \* performPeopleSearch: lastSuccessfulPageNumber
    navigationAttempts,       \* passes of the navigation retry loop for currentPage
    navError,                 \* the catch block of the last navigation attempt ran
    gotoCalls,                \* page.goto calls on the search URL for currentPage
    retryNotices,             \* 'retry_navigation' events emitted for currentPage
    resultError,              \* extractProfileData returned result.error
    url,                      \* page.url() as last read for currentPage
    profiles,                 \* records collected by the callback for currentPage
    endOfResultsCheck,        \* result of the no-results probe ("none" if not run)
    error,                    \* message kind of the exception caught for currentPage
    events,                   \* events emitted on the emitter, in order
    escaped,                  \* an exception left the async task unhandled
    browserOpen,              \* the launched browser has not been closed
    listeners,                \* the handler's listeners are attached to the emitter
    closed,                   \* the client-close callback has run
    cancelInDelay,            \* the close callback ran during an inter-page delay
    response,                 \* the handler's isResponseEnded and its calls on res
    heartbeatInterval         \* the handler's heartbeat timer

vars == <<pc, cookiesString, maxPages, searchTarget, feedPage, displayedTotal, calc,
          cdpMayThrow, scroll, item, setCookieCalls, feedGotos, setupError,
          currentPage, allResults, consecutiveErrorCount, lastSuccessfulPageNumber,
          navigationAttempts, navError, gotoCalls, retryNotices, resultError, url, profiles, endOfResultsCheck, error, events,
          escaped, browserOpen, listeners, closed, cancelInDelay,
          paging, stream, response, heartbeatInterval>>

(***************************************************************************)
(* Bounds of the model.                                                    *)
(***************************************************************************)
MaxPages == 4

MaxRecs == 2

MaxCookieLen == 3

(***************************************************************************)
(* Program constants.                                                      *)
(***************************************************************************)
MAX_CONSECUTIVE_ERRORS_PLUS_ONE == 3 + 1

MAX_CONSECUTIVE_ERRORS == 3

FourNavigationAttempts == 3 + 1

maxNavigationAttempts == 3

cookieRefreshInterval == 5

resultsPerPage == 10

defaultTotalResults == 10

linkedInMaxResults == 1000

(***************************************************************************)
(* Sequences of tokens stand for strings: a token is a piece of text that  *)
(* the code never looks inside.                                            *)
(***************************************************************************)
Includes(s, pat) ==
    \E i \in 1..(Len(s) - Len(pat) + 1) : SubSeq(s, i, i + Len(pat) - 1) = pat

\* s.split(sep): the pieces between the occurrences of sep, first to last
RECURSIVE SplitOn(_, _)
SplitOn(s, sep) ==
    IF \E i \in 1..Len(s) : s[i] = sep
    THEN LET first == CHOOSE i \in 1..Len(s) :
                         s[i] = sep /\ \A j \in 1..(i - 1) : s[j] # sep
         IN  <<SubSeq(s, 1, first - 1)>> \o SplitOn(SubSeq(s, first + 1, Len(s)), sep)
    ELSE <<s>>

RECURSIVE JoinWith(_, _)
JoinWith(parts, sep) ==
    IF parts = <<>> THEN <<>>
    ELSE IF Len(parts) = 1 THEN Head(parts)
    ELSE Head(parts) \o <<sep>> \o JoinWith(Tail(parts), sep)

RECURSIVE TrimLeft(_)
TrimLeft(s) ==
    IF s # <<>> /\ Head(s) = " " THEN TrimLeft(Tail(s)) ELSE s

RECURSIVE TrimRight(_)
TrimRight(s) ==
    IF s # <<>> /\ s[Len(s)] = " " THEN TrimRight(SubSeq(s, 1, Len(s) - 1)) ELSE s

Trim(s) == TrimRight(TrimLeft(s))

(***************************************************************************)
(* setCookies: the cookies array built from the raw string.                *)
(***************************************************************************)
RECURSIVE CookiesOfParts(_)
CookiesOfParts(parts) ==
    IF parts = <<>> THEN <<>>
    ELSE LET part   == Trim(Head(parts))
             pieces == SplitOn(part, "=")
             name   == Head(pieces)
             value  == JoinWith(Tail(pieces), "=")
             rest   == CookiesOfParts(Tail(parts))
         IN  IF part = <<>> THEN rest
             ELSE IF name # <<>> /\ value # <<>>
                  THEN <<[name |-> name, value |-> value]>> \o rest
                  ELSE rest

ParseCookies(s) == CookiesOfParts(SplitOn(s, ";"))

HasLiAtAnyCookie(cookies) == cookies # <<>>

hasLiAt(cookies) == \E i \in 1..Len(cookies) : cookies[i].name = <<"li_at">>

(***************************************************************************)
(* The messages of the errors thrown inside the page loop.                 *)
(***************************************************************************)
ErrorKinds ==
    {"SessionExpired", "Captcha", "RateLimit", "Maintenance", "LoginRedirect",
     "NavFailed", "BrowserOp", "ScrollFailed"}

ErrorMessage(kind) ==
    CASE kind = "SessionExpired" ->
            <<"LinkedIn", "session", "expired", ".", "Please", "provide", "new",
              "cookies", ".">>
      [] kind = "Captcha" ->
            <<"CAPTCHA", "or", "security", "verification", "detected", ".",
              "Please", "try", "again", "later", "with", "new", "cookies", ".">>
      [] kind = "RateLimit" ->
            <<"Rate", "limiting", "detected", ".", "LinkedIn", "is", "asking",
              "to", "slow", "down", "requests", ".">>
      [] kind = "Maintenance" ->
            <<"LinkedIn", "reports", "maintenance", "or", "temporary",
              "unavailability", ".">>
      [] kind = "LoginRedirect" ->
            <<"Redirected", "to", "login", ".", "Session", "may", "have",
              "expired", ".">>
      [] kind = "NavFailed" ->
            <<"Failed", "to", "navigate", "to", "page", "N", "after", "3",
              "attempts">>
      [] OTHER -> <<"Protocol", "error">>

StopNever(message) == FALSE

StopImmediately(message) ==
    \/ Includes(message, <<"CAPTCHA">>)
    \/ Includes(message, <<"security", "verification">>)
    \/ Includes(message, <<"rate", "limiting">>)
    \/ Includes(message, <<"session", "expired">>)

(***************************************************************************)
(* Events.  Every event has the same fields; a field an event does not     *)
(* carry holds 0, "" or <<>>.  n is lastSuccessfulPage (stopped, blocked), *)
(* count (extracted), resultsCount (done) or profilesScraped               *)
(* (extracting_progress).  Not kept in the log: the                        *)
(* per-attempt retry_navigation notices, and the message text of a         *)
(* per-page 'error' event (the error it reports is in the variable error). *)
(***************************************************************************)
Ev(type, status, page, kind, recs, n) ==
    [type |-> type, status |-> status, page |-> page, kind |-> kind,
     recs |-> recs, n |-> n, totalProfiles |-> 0, progress |-> 0]

Progress(status, page) == Ev("progress", status, page, "", <<>>, 0)

ErrorEvent(status, page, kind, n) == Ev("error", status, page, kind, <<>>, n)

Min(a, b) == IF a <= b THEN a ELSE b

\* getTotalSearchResultsInfo: totalResults || 10
TotalResults(displayed) == IF displayed = 0 THEN defaultTotalResults ELSE displayed

CalculateWithoutCap(totalAvailable, pages, perPage) ==
    Min(totalAvailable, pages * perPage)

calculateTotalProfilesToExtract(totalAvailable, pages, perPage) ==
    Min(Min(totalAvailable, pages * perPage), linkedInMaxResults)

\* the positional count and the percentage of the streaming loop, for the
\* record at index i (counted from 1) of page
ProfilesScraped(page, i) == (page - 1) * resultsPerPage + i

ProgressOf(profilesScraped, totalProfilesToExtract) ==
    Min(100, (100 * profilesScraped) \div totalProfilesToExtract)

\* sendToClient: a 'profile' event, then an extracting_progress event that
\* carries profilesScraped, totalProfiles and progress
SendProgressOnly(profile, profilesScraped, totalProfiles) ==
    << [Ev("progress", "extracting_progress", 0, "", <<profile>>, profilesScraped)
          EXCEPT !.totalProfiles = totalProfiles,
                 !.progress = ProgressOf(profilesScraped, totalProfiles)] >>

SendToClient(profile, profilesScraped, totalProfiles) ==
    << Ev("profile", "profile", 0, "", <<profile>>, 0),
       [Ev("progress", "extracting_progress", 0, "", <<profile>>, profilesScraped)
          EXCEPT !.totalProfiles = totalProfiles,
                 !.progress = ProgressOf(profilesScraped, totalProfiles)] >>

\* the streaming loop of extractProfileData, from index i (counted from 1)
RECURSIVE StreamProfiles(_, _, _, _)
StreamProfiles(extracted, page, totalProfiles, i) ==
    IF i > Len(extracted) THEN <<>>
    ELSE SendToClient(extracted[i], ProfilesScraped(page, i), totalProfiles)
            \o StreamProfiles(extracted, page, totalProfiles, i + 1)

DoneEventEmpty(results) == Ev("done", "done", 0, "", <<>>, 0)

DoneEvent(results) == Ev("done", "done", 0, "", results, Len(results))

AppendReversed(results, pageProfiles) == pageProfiles \o results

AppendResults(results, pageProfiles) == results \o pageProfiles

HasNoResultsNever(resultHasNoResults, pageProfiles) == FALSE

HasNoResults(resultHasNoResults, pageProfiles) ==
    resultHasNoResults \/ Len(pageProfiles) = 0

\* the records the page evaluation returns: n records in page order.  A
\* record is known by its place on its page, so two pages can return equal
\* records.
ExtractedProfiles(n) == [i \in 1..n |-> [idx |-> i]]

NumPages == IF maxPages = 0 THEN 100 ELSE maxPages

Urls == {"search", "login", "checkpoint", "other"}

LoginUrls == {"login", "checkpoint"}

Indicators ==
    [captchaPresent : BOOLEAN, rateLimitMsg : BOOLEAN,
     maintenanceMsg : BOOLEAN, loginRedirect : BOOLEAN]

(***************************************************************************)
(* The inputs.                                                             *)
(***************************************************************************)
CookieTokens == {"li_at", "x", ";", "=", " "}

RECURSIVE SeqsUpTo(_, _)
SeqsUpTo(S, n) ==
    IF n = 0 THEN {<<>>}
    ELSE LET shorter == SeqsUpTo(S, n - 1)
         IN  shorter \cup {Append(s, t) : s \in shorter, t \in S}

CookieStrings == SeqsUpTo(CookieTokens, MaxCookieLen)

SampleCookieStrings ==
    { <<"x", "=", "x", ";", " ", "li_at", "=", "x", "=">>,
      <<"x", "=", "x">> }

\* what the request names as its search target
SearchTargets == {"url", "malformed", "none"}

\* the two elements of the feed page that getCurrentUserInfo looks for
FeedPages == [globalNavMe : BOOLEAN, guestSignInLink : BOOLEAN]

SampleFeedPages ==
    { [globalNavMe |-> TRUE, guestSignInLink |-> FALSE],
      [globalNavMe |-> FALSE, guestSignInLink |-> TRUE] }

\* the counts a results heading can show (0: no count was found)
DisplayedTotals == {0, 3, 25}

SampleDisplayedTotals == {25}

navVars == <<navigationAttempts, navError, gotoCalls, retryNotices>>

pageVars == <<navVars, resultError, url, profiles, endOfResultsCheck, error>>

loopVars == <<currentPage, allResults, consecutiveErrorCount,
              lastSuccessfulPageNumber>>

givenVars == <<cookiesString, maxPages, searchTarget, feedPage, displayedTotal, calc,
               cdpMayThrow, scroll, item, paging, stream>>

setupVars == <<givenVars, setCookieCalls, feedGotos, setupError>>

handlerVars == <<listeners, closed, cancelInDelay>>

responseVars == <<response, heartbeatInterval>>

(***************************************************************************)
(* The SSE handler's response.  endCalls counts the calls of res.end,      *)
(* lateWrites the calls of res.write made after res.end.  The handler has  *)
(* listeners for 'progress', 'error' and 'done'; a 'profile' event has     *)
(* none.  Listeners run inside emitter.emit, one event after the other.    *)
(***************************************************************************)
WritableEnded(r) == r.endCalls > 0

ResWrite(r) ==
    [r EXCEPT !.lateWrites = IF WritableEnded(r) THEN @ + 1 ELSE @]

ResEnd(r) == [r EXCEPT !.endCalls = @ + 1]

SafeEndUnguarded(r) == [ResEnd(r) EXCEPT !.isResponseEnded = TRUE]

safeWrite(r) ==
    IF ~r.isResponseEnded /\ ~WritableEnded(r) THEN ResWrite(r) ELSE r

safeEnd(r) ==
    IF ~r.isResponseEnded /\ ~WritableEnded(r)
    THEN [ResEnd(r) EXCEPT !.isResponseEnded = TRUE]
    ELSE r

OnProgress(r) == safeWrite(r)

OnErrorWritesOnly(r) == safeWrite(r)

OnError(r) == safeEnd(safeWrite(r))

OnDone(r) == safeEnd(safeWrite(r))

OnEvent(r, ev) ==
    CASE ev.type = "progress" -> OnProgress(r)
      [] ev.type = "error"    -> OnError(r)
      [] ev.type = "done"     -> OnDone(r)
      [] OTHER                -> r

RECURSIVE Deliver(_, _)
Deliver(r, evs) ==
    IF evs = <<>> THEN r ELSE Deliver(OnEvent(r, Head(evs)), Tail(evs))

\* the events a step has emitted
NewEvents == SubSeq(events', Len(events) + 1, Len(events'))

\* what the handler's listeners do with the events of a step of the crawl
Respond ==
    /\ response' = IF listeners THEN Deliver(response, NewEvents) ELSE response
    /\ UNCHANGED heartbeatInterval

InitWith(strings, pages, targets, feeds, totals, cdp, beats) ==
    /\ pc = "request"
    /\ heartbeatInterval \in beats
    /\ response = [isResponseEnded |-> FALSE, endCalls |-> 0, lateWrites |-> 0]
    /\ cdpMayThrow \in cdp
    /\ cookiesString \in strings
    /\ maxPages \in pages
    /\ searchTarget \in targets
    /\ feedPage \in feeds
    /\ displayedTotal \in [1..maxPages -> totals]
    /\ setCookieCalls = 0
    /\ feedGotos = 0
    /\ setupError = "none"
    /\ currentPage = 1
    /\ allResults = <<>>
    /\ consecutiveErrorCount = 0
    /\ lastSuccessfulPageNumber = 0
    /\ navigationAttempts = 0
    /\ navError = FALSE
    /\ gotoCalls = 0
    /\ retryNotices = 0
    /\ resultError = FALSE
    /\ url = "none"
    /\ profiles = <<>>
    /\ endOfResultsCheck = "none"
    /\ error = "none"
    /\ events = <<>>
    /\ escaped = FALSE
    /\ browserOpen = FALSE
    /\ listeners = TRUE
    /\ closed = FALSE
    /\ cancelInDelay = FALSE

Init ==
    /\ InitWith(SampleCookieStrings, 1..MaxPages, SearchTargets, SampleFeedPages,
                SampleDisplayedTotals, {FALSE}, {"noHeartbeat"})
    /\ calc = <<>>
    /\ scroll = <<>>
    /\ item = <<>>
    /\ paging = <<>>
    /\ stream = <<>>

InitCookies ==
    /\ InitWith(CookieStrings, {1, 2}, {"url"}, SampleFeedPages, SampleDisplayedTotals, {FALSE}, {"noHeartbeat"})
    /\ calc = <<>>
    /\ scroll = <<>>
    /\ item = <<>>
    /\ paging = <<>>
    /\ stream = <<>>

\* two-page crawls over every result-count heading the two pages can show
InitProgress ==
    /\ InitWith(SampleCookieStrings, {2}, {"url"}, SampleFeedPages, DisplayedTotals, {FALSE}, {"noHeartbeat"})
    /\ calc = <<>>
    /\ scroll = <<>>
    /\ item = <<>>
    /\ paging = <<>>
    /\ stream = <<>>

\* short crawls over every feed page
InitSession ==
    /\ InitWith(SampleCookieStrings, {1, 2}, {"url"}, FeedPages, SampleDisplayedTotals, {FALSE}, {"noHeartbeat"})
    /\ calc = <<>>
    /\ scroll = <<>>
    /\ item = <<>>
    /\ paging = <<>>
    /\ stream = <<>>

\* short crawls in which the CDP session of a retry can throw
InitRetry ==
    /\ InitWith(SampleCookieStrings, {1, 2}, {"url"}, SampleFeedPages,
                SampleDisplayedTotals, BOOLEAN, {"noHeartbeat"})
    /\ calc = <<>>
    /\ scroll = <<>>
    /\ item = <<>>
    /\ paging = <<>>
    /\ stream = <<>>

\* calculateTotalProfilesToExtract alone: no request is handled, and the
\* arguments of the call are drawn from sets that lie on both sides of the
\* page limit and of the platform limit
CalcAvailable == {1, 7, 50, 999, 1000, 1001, 13700000}

CalcPages == {1, 5, 100, 101}

CalcPerPage == {1, 10, 25}

InitTotals ==
    /\ InitWith({<<>>}, {1}, {"none"},
                {[globalNavMe |-> FALSE, guestSignInLink |-> FALSE]}, {0}, {FALSE}, {"noHeartbeat"})
    /\ calc \in [totalAvailable : CalcAvailable, maxPages : CalcPages,
                  resultsPerPage : CalcPerPage, result : {0}]
    /\ scroll = <<>>
    /\ item = <<>>
    /\ paging = <<>>
    /\ stream = <<>>

(***************************************************************************)
(* emitter.emit('error', ...) throws when no 'error' listener is attached. *)
(* A failure of session setup runs the catch blocks of the function that   *)
(* failed and of searchLinkedInPeople: each emits an 'error' event, and    *)
(* the first emit that throws leaves the remaining ones unreached.         *)
(***************************************************************************)
OuterError == ErrorEvent("error", 0, "searchLinkedInPeople", 0)

SetupFailsThenSearches(what, innerEvents) ==
    /\ setupError' = what
    /\ pc' = "pageStart"
    /\ IF listeners
       THEN events' = events \o innerEvents \o <<OuterError>> /\ escaped' = FALSE
       ELSE events' = events /\ escaped' = TRUE

SetupFails(what, innerEvents) ==
    /\ setupError' = what
    /\ pc' = "closing"
    /\ IF listeners
       THEN events' = events \o innerEvents \o <<OuterError>> /\ escaped' = FALSE
       ELSE events' = events /\ escaped' = TRUE

\* the request handler up to its call of searchLinkedInPeople: a request
\* without cookies or without a search target is answered with status 400
Request ==
    /\ pc = "request"
    /\ pc' = IF cookiesString = <<>> \/ searchTarget = "none"
             THEN "rejected" ELSE "launch"
    /\ heartbeatInterval' =
          IF heartbeatInterval = "unset" /\ cookiesString # <<>> /\ searchTarget # "none"
          THEN "armed" ELSE heartbeatInterval
    /\ response' = IF cookiesString # <<>> /\ searchTarget # "none"
                   THEN safeWrite(response) ELSE response
    /\ UNCHANGED <<setupVars, loopVars, pageVars, events, escaped, browserOpen,
                   handlerVars>>

\* puppeteer.launch, then browser.newPage and the page set-up before
\* setCookies: either can throw, the second with the browser launched
LaunchOutcomes == {"ready", "launchThrew", "setupThrew"}

Launch ==
    /\ pc = "launch"
    /\ \E outcome \in LaunchOutcomes :
         IF outcome = "ready"
         THEN /\ browserOpen' = TRUE
              /\ pc' = "setCookies"
              /\ UNCHANGED <<setupError, events, escaped>>
         ELSE /\ browserOpen' = (outcome = "setupThrew")
              /\ SetupFails("launch", <<>>)
    /\ UNCHANGED <<givenVars, setCookieCalls, feedGotos,
                   loopVars, pageVars, handlerVars>>
    /\ Respond

SetCookies ==
    /\ pc = "setCookies"
    /\ LET cookies == ParseCookies(cookiesString)
       IN  IF ~hasLiAt(cookies)
           THEN /\ SetupFails("MissingToken", <<ErrorEvent("error", 0, "setCookies", 0)>>)
                /\ UNCHANGED setCookieCalls
           ELSE /\ setCookieCalls' = setCookieCalls + 1
                /\ events' = Append(events, Progress("cookies_set", 0))
                /\ pc' = "validate"
                /\ UNCHANGED <<setupError, escaped>>
    /\ UNCHANGED <<givenVars, feedGotos, browserOpen,
                   loopVars, pageVars, handlerVars>>
    /\ Respond

\* getCurrentUserInfo: userInfo.loggedIn
LoggedIn(feed) == feed.globalNavMe \/ ~feed.guestSignInLink

\* validateSession and getCurrentUserInfo; on success performPeopleSearch
\* starts and runs to its first await
ValidateSession ==
    /\ pc = "validate"
    /\ feedGotos' = feedGotos + 1
    /\ \E gotoOk \in BOOLEAN :
         LET loggedIn == LoggedIn(feedPage)
             started == events \o <<Progress("validating", 0),
                                    Progress("fetching_user_info", 0)>>
             failed  == <<Progress("validating", 0),
                          Progress("fetching_user_info", 0),
                          ErrorEvent("error", 0, "getCurrentUserInfo", 0),
                          ErrorEvent("error", 0, "validateSession", 0)>>
         IN  IF gotoOk /\ loggedIn
             THEN /\ events' = started \o <<Progress("user_info_fetched", 0),
                                            Progress("validated", 0)>>
                  /\ pc' = "pageStart"
                  /\ UNCHANGED <<setupError, escaped>>
             ELSE /\ pc' = "closing"
                  /\ setupError' = IF gotoOk THEN "NotLoggedIn" ELSE "FeedGoto"
                  /\ IF listeners
                     THEN events' = events \o failed \o <<OuterError>>
                          /\ escaped' = FALSE
                     ELSE events' = started /\ escaped' = TRUE
    /\ UNCHANGED <<givenVars, setCookieCalls, browserOpen,
                   loopVars, pageVars, handlerVars>>
    /\ Respond

(***************************************************************************)
(* performPeopleSearch: the page loop.                                     *)
(***************************************************************************)
ThrowCountsTwice(kind) ==
    /\ error' = kind
    /\ consecutiveErrorCount' = consecutiveErrorCount + 2
    /\ pc' = "catch"

\* an exception reaches the catch block of the loop body: the count is
\* raised before the catch block's first await
Throw(kind) ==
    /\ error' = kind
    /\ consecutiveErrorCount' = consecutiveErrorCount + 1
    /\ pc' = "catch"

LeaveLoopSilently(emitted) ==
    /\ events' = emitted
    /\ pc' = "closing"

\* the loop ends (break, or its condition fails): 'done' is emitted and
\* performPeopleSearch returns
LeaveLoop(emitted) ==
    /\ events' = Append(emitted, DoneEvent(allResults))
    /\ pc' = "closing"

SameIndex(p) == p

\* currentPage++
NextIndex(p) == p + 1

\* currentPage++ and the loop condition; the next iteration's locals are fresh
NextPage(emitted) ==
    /\ currentPage' = NextIndex(currentPage)
    /\ IF NextIndex(currentPage) <= NumPages
       THEN /\ events' = emitted
            /\ pc' = "pageStart"
            /\ navigationAttempts' = 0
            /\ navError' = FALSE
            /\ gotoCalls' = 0
            /\ retryNotices' = 0
            /\ resultError' = FALSE
            /\ url' = "none"
            /\ profiles' = <<>>
            /\ endOfResultsCheck' = "none"
            /\ error' = "none"
       ELSE /\ LeaveLoop(emitted)
            /\ UNCHANGED pageVars

\* setUserAgent, the periodic session refresh, the 'navigating' event
PageStart ==
    /\ pc = "pageStart"
    /\ \E userAgentSet \in BOOLEAN :
         IF ~userAgentSet
         THEN /\ Throw("BrowserOp")
              /\ UNCHANGED <<feedGotos, events, navigationAttempts>>
         ELSE LET refresh == currentPage > 1 /\ currentPage % cookieRefreshInterval = 0
              IN  /\ feedGotos' = IF refresh THEN feedGotos + 1 ELSE feedGotos
                  /\ events' = events
                        \o (IF refresh THEN <<Progress("refreshing_session", currentPage)>>
                            ELSE <<>>)
                        \o <<Progress("navigating", currentPage)>>
                  /\ navigationAttempts' = 0
                  /\ pc' = "navigate"
                  /\ UNCHANGED <<error, consecutiveErrorCount>>
    /\ UNCHANGED <<givenVars, setCookieCalls, setupError, currentPage,
                   allResults, lastSuccessfulPageNumber, navError, gotoCalls,
                   retryNotices, resultError, url, profiles,
                   endOfResultsCheck, escaped, browserOpen, handlerVars>>
    /\ Respond

NavigationSucceededOnlyIfGotoOk(gotoOk, u) == gotoOk

\* navigationSuccess at the end of one pass: page.goto returned, or the
\* catch block found the page on the search path
NavigationSucceeded(gotoOk, u) ==
    gotoOk \/ (u \notin LoginUrls /\ u = "search")

\* one pass of the navigation retry loop.  A retry first clears the browser
\* cache over a CDP session, then emits 'retry_navigation'; every pass
\* calls page.goto unless the cache clearing threw.  Whatever is thrown in
\* the pass runs its catch block, which reads page.url().  A target that is
\* not a URL was kept as it is by the normalisation, and page.goto throws
\* on it without leaving the page it is on.
Navigate ==
    /\ pc = "navigate"
    /\ navigationAttempts < maxNavigationAttempts
    /\ navigationAttempts' = navigationAttempts + 1
    /\ \E cacheCleared \in BOOLEAN, gotoOk \in BOOLEAN, u \in Urls :
         /\ (navigationAttempts = 0 \/ ~cdpMayThrow) => cacheCleared
         /\ ~cacheCleared => ~gotoOk
         /\ searchTarget = "malformed" => ~gotoOk /\ u # "search"
         /\ retryNotices' = IF navigationAttempts > 0 /\ cacheCleared
                            THEN retryNotices + 1 ELSE retryNotices
         /\ gotoCalls' = IF cacheCleared THEN gotoCalls + 1 ELSE gotoCalls
         /\ navError' = ~gotoOk
         /\ url' = u
         /\ IF NavigationSucceeded(gotoOk, u)
            THEN /\ pc' = "rateCheck"
                 /\ UNCHANGED <<error, consecutiveErrorCount>>
            ELSE IF u \in LoginUrls
            THEN Throw("SessionExpired")
            ELSE IF navigationAttempts + 1 >= maxNavigationAttempts
            THEN Throw("NavFailed")
            ELSE /\ pc' = "navigate"
                 /\ UNCHANGED <<error, consecutiveErrorCount>>
    /\ UNCHANGED <<setupVars, currentPage, allResults, lastSuccessfulPageNumber,
                   resultError, profiles, endOfResultsCheck, events, escaped,
                   browserOpen, handlerVars>>
    /\ Respond

\* checkForRateLimiting and the four checks on its result
RateCheck ==
    /\ pc = "rateCheck"
    /\ \E evaluated \in BOOLEAN, shot \in BOOLEAN, ind \in Indicators :
         /\ url \in LoginUrls => ind.loginRedirect
         /\ IF ~evaluated THEN Throw("BrowserOp")
            ELSE IF ind.captchaPresent
            THEN (IF shot THEN Throw("Captcha") ELSE Throw("BrowserOp"))
            ELSE IF ind.rateLimitMsg THEN Throw("RateLimit")
            ELSE IF ind.maintenanceMsg THEN Throw("Maintenance")
            ELSE IF ind.loginRedirect THEN Throw("LoginRedirect")
            ELSE /\ pc' = "settle"
                 /\ UNCHANGED <<error, consecutiveErrorCount>>
    /\ navError' = FALSE
    /\ UNCHANGED <<setupVars, currentPage, allResults, lastSuccessfulPageNumber,
                   navigationAttempts, gotoCalls, retryNotices, resultError, url,
                   profiles, endOfResultsCheck, events, escaped, browserOpen,
                   handlerVars>>
    /\ Respond

\* the selector waits (each in its own try), the screenshot taken when no
\* selector was found, humanLikeScroll, the second URL check, 'page_loaded'
\* and 'extracting'.  Neither the screenshot nor humanLikeScroll is called
\* inside a try of its own.
SettleOutcomes == {"settled", "screenshotThrew", "scrollThrew"}

Settle ==
    /\ pc = "settle"
    /\ \E outcome \in SettleOutcomes, u \in Urls :
         IF outcome = "screenshotThrew"
         THEN /\ Throw("BrowserOp")
              /\ UNCHANGED <<url, events>>
         ELSE IF outcome = "scrollThrew"
         THEN /\ Throw("ScrollFailed")
              /\ UNCHANGED <<url, events>>
         ELSE /\ url' = u
              /\ IF u \in LoginUrls
                 THEN /\ Throw("SessionExpired")
                      /\ UNCHANGED events
                 ELSE /\ events' = events \o <<Progress("page_loaded", currentPage),
                                               Progress("extracting", currentPage)>>
                      /\ pc' = "extract"
                      /\ UNCHANGED <<error, consecutiveErrorCount>>
    /\ UNCHANGED <<setupVars, currentPage, allResults, lastSuccessfulPageNumber,
                   navVars, resultError, profiles, endOfResultsCheck, escaped,
                   browserOpen, handlerVars>>
    /\ Respond

SuccessfulPageKept(last, page) == last

\* lastSuccessfulPageNumber = currentPage, once extractProfileData returned
SuccessfulPage(last, page) == page

\* extractProfileData with the streaming callback, then the code after it
\* up to the next await.  extractProfileData catches what is thrown inside
\* it and returns hasNoResults: true.
Extract ==
    /\ pc = "extract"
    /\ \E threw \in BOOLEAN, n \in 0..MaxRecs :
         /\ threw => n = 0
         /\ resultError' = threw
         /\ LET extracted == ExtractedProfiles(n)
                total     == calculateTotalProfilesToExtract(
                                 TotalResults(displayedTotal[currentPage]),
                                 NumPages, resultsPerPage)
                streamed  == events \o StreamProfiles(extracted, currentPage, total, 1)
            IN  /\ profiles' = extracted
                /\ IF HasNoResults(threw \/ n = 0, extracted)
                   THEN /\ pc' = "noResults"
                        /\ events' = streamed
                        /\ UNCHANGED allResults
                   ELSE /\ allResults' = AppendResults(allResults, extracted)
                        /\ events' = Append(streamed,
                              Ev("progress", "extracted", currentPage, "", extracted,
                                 Len(extracted)))
                        /\ pc' = "pageDelay"
    /\ consecutiveErrorCount' = 0
    /\ lastSuccessfulPageNumber' = SuccessfulPage(lastSuccessfulPageNumber, currentPage)
    /\ UNCHANGED <<setupVars, currentPage, navVars, url,
                   endOfResultsCheck, error, escaped, browserOpen, handlerVars>>
    /\ Respond

\* the no-results branch: screenshot, the end-of-results probe,
\* 'no_more_results', break.  The result of extractProfileData is a local
\* of the try block, which both ways out of the branch leave.
NoResults ==
    /\ pc = "noResults"
    /\ resultError' = FALSE
    /\ \E probed \in BOOLEAN, explicitNoResults \in BOOLEAN :
         IF ~probed
         THEN /\ Throw("BrowserOp")
              /\ UNCHANGED <<endOfResultsCheck, events>>
         ELSE /\ endOfResultsCheck' = IF explicitNoResults THEN "explicit" ELSE "absent"
              /\ LeaveLoop(Append(events,
                     Ev("progress", "no_more_results", currentPage,
                        IF explicitNoResults THEN "explicit" ELSE "absent", <<>>, 0)))
              /\ UNCHANGED <<error, consecutiveErrorCount>>
    /\ UNCHANGED <<setupVars, currentPage, allResults, lastSuccessfulPageNumber,
                   navVars, url, profiles, escaped, browserOpen,
                   handlerVars>>
    /\ Respond

PageDelayOverlapping ==
    /\ pc \in {"extract", "pageDelay"}
    /\ NextPage(events)
    /\ UNCHANGED <<setupVars, allResults, consecutiveErrorCount,
                   lastSuccessfulPageNumber, escaped, browserOpen, handlerVars>>
    /\ Respond

\* the inter-page delay runs out: delay() is a plain timer
PageDelay ==
    /\ pc = "pageDelay"
    /\ NextPage(events)
    /\ UNCHANGED <<setupVars, allResults, consecutiveErrorCount,
                   lastSuccessfulPageNumber, escaped, browserOpen, handlerVars>>
    /\ Respond

AbortStatusBlockedFirst(count, message) ==
    IF StopImmediately(message) THEN "blocked"
    ELSE IF count >= MAX_CONSECUTIVE_ERRORS THEN "stopped"
    ELSE "none"

\* the two tests of the catch block that end the loop, in the order of the
\* code: the budget of consecutive failures, then the message
AbortStatus(count, message) ==
    IF count >= MAX_CONSECUTIVE_ERRORS THEN "stopped"
    ELSE IF StopImmediately(message) THEN "blocked"
    ELSE "none"

\* the catch block after its screenshot: the 'error' event, the budget
\* check, the stop-immediately check
CatchBlock ==
    /\ pc = "catch"
    /\ IF ~listeners
       THEN /\ escaped' = TRUE
            /\ pc' = "closing"
            /\ UNCHANGED events
       ELSE LET reported == Append(events, ErrorEvent("error", currentPage, "", 0))
            IN  /\ escaped' = FALSE
                /\ IF AbortStatus(consecutiveErrorCount, ErrorMessage(error)) = "stopped"
                   THEN LeaveLoop(Append(reported,
                            ErrorEvent("stopped", 0, "", lastSuccessfulPageNumber)))
                   ELSE IF AbortStatus(consecutiveErrorCount, ErrorMessage(error)) = "blocked"
                   THEN LeaveLoop(Append(reported,
                            ErrorEvent("blocked", 0, error, lastSuccessfulPageNumber)))
                   ELSE /\ events' = reported
                        /\ pc' = "errorDelay"
    /\ UNCHANGED <<setupVars, loopVars, pageVars, browserOpen, handlerVars>>
    /\ Respond

BreakAfterErrorDelayNever == FALSE

\* the test after the error delay: a failed first page ends the loop
BreakAfterErrorDelay == currentPage = 1

\* the delay after an error runs out
ErrorDelay ==
    /\ pc = "errorDelay"
    /\ IF BreakAfterErrorDelay
       THEN /\ LeaveLoop(events)
            /\ UNCHANGED <<currentPage, pageVars>>
       ELSE NextPage(events)
    /\ UNCHANGED <<setupVars, allResults, consecutiveErrorCount,
                   lastSuccessfulPageNumber, escaped, browserOpen, handlerVars>>
    /\ Respond

CloseBrowserUnlessEscaped ==
    /\ pc = "closing"
    /\ ~escaped
    /\ pc' = "finished"
    /\ browserOpen' = FALSE
    /\ UNCHANGED <<setupVars, loopVars, pageVars, events, escaped, handlerVars>>
    /\ Respond

\* the finally block of searchLinkedInPeople
CloseBrowser ==
    /\ pc = "closing"
    /\ pc' = "finished"
    /\ browserOpen' = FALSE
    /\ UNCHANGED <<setupVars, loopVars, pageVars, events, escaped, handlerVars>>
    /\ Respond

\* req.on('close'): clearInterval, emit('cancel'), which nothing listens
\* to, removeAllListeners, safeEnd
ClientClose ==
    /\ pc \notin {"request", "rejected"}
    /\ ~closed
    /\ closed' = TRUE
    /\ listeners' = FALSE
    /\ cancelInDelay' = (pc = "pageDelay")
    /\ heartbeatInterval' = IF heartbeatInterval = "armed" THEN "cleared"
                            ELSE heartbeatInterval
    /\ response' = safeEnd(response)
    /\ UNCHANGED <<pc, setupVars, loopVars, pageVars, events, escaped, browserOpen>>

Next ==
    \/ Request
    \/ Launch
    \/ SetCookies
    \/ ValidateSession
    \/ PageStart
    \/ Navigate
    \/ RateCheck
    \/ Settle
    \/ Extract
    \/ NoResults
    \/ PageDelay
    \/ CatchBlock
    \/ ErrorDelay
    \/ CloseBrowser
    \/ ClientClose

Spec == Init /\ [][Next]_vars

SpecCookies == InitCookies /\ [][Next]_vars

SpecProgress == InitProgress /\ [][Next]_vars

SpecSession == InitSession /\ [][Next]_vars

SpecRetry == InitRetry /\ [][Next]_vars

\* the interval callback of the handler that sends heartbeats
Heartbeat ==
    /\ heartbeatInterval = "armed"
    /\ IF ~response.isResponseEnded /\ ~WritableEnded(response)
       THEN /\ response' = safeWrite(response)
            /\ UNCHANGED heartbeatInterval
       ELSE /\ heartbeatInterval' = "cleared"
            /\ UNCHANGED response
    /\ UNCHANGED <<pc, setupVars, loopVars, pageVars, events, escaped, browserOpen,
                   handlerVars>>

\* crawls of up to three pages under the handler that sends heartbeats
InitHandler ==
    /\ InitWith(SampleCookieStrings, {1, 3}, {"url"}, SampleFeedPages,
                SampleDisplayedTotals, {FALSE}, {"unset"})
    /\ calc = <<>>
    /\ scroll = <<>>
    /\ item = <<>>
    /\ paging = <<>>
    /\ stream = <<>>

NextHandler == Next \/ Heartbeat

SpecHandler == InitHandler /\ [][NextHandler]_vars

\* every step of the handler and of the crawl task: each awaited browser
\* operation and each timer returns or throws, so the task is never left
\* suspended for ever; the client is free never to close the request
CrawlStep ==
    \/ Request
    \/ Launch
    \/ SetCookies
    \/ ValidateSession
    \/ PageStart
    \/ Navigate
    \/ RateCheck
    \/ Settle
    \/ Extract
    \/ NoResults
    \/ PageDelay
    \/ CatchBlock
    \/ ErrorDelay
    \/ CloseBrowser

InitLive ==
    /\ InitWith(SampleCookieStrings, {1, 2}, SearchTargets, SampleFeedPages,
                SampleDisplayedTotals, {FALSE}, {"noHeartbeat"})
    /\ calc = <<>>
    /\ scroll = <<>>
    /\ item = <<>>
    /\ paging = <<>>
    /\ stream = <<>>

SpecLive == InitLive /\ [][Next]_vars /\ WF_vars(CrawlStep)

\* the call of calculateTotalProfilesToExtract returns (result 0: not yet)
Calculate ==
    /\ calc.result = 0
    /\ calc' = [calc EXCEPT !.result =
                   calculateTotalProfilesToExtract(calc.totalAvailable, calc.maxPages,
                                                   calc.resultsPerPage)]
    /\ UNCHANGED <<pc, cookiesString, maxPages, searchTarget, feedPage, displayedTotal,
                   cdpMayThrow, scroll, item, setCookieCalls, feedGotos, setupError,
                   loopVars, pageVars, events, escaped, browserOpen, handlerVars,
                   paging, stream, responseVars>>

NextTotals == Calculate

SpecTotals == InitTotals /\ [][NextTotals]_vars

(***************************************************************************)
(* humanLikeScroll alone: the step loop that runs in the page.  Lengths    *)
(* are in pixels.  The document keeps the height it had when totalHeight   *)
(* was measured.  Math.random() is a free choice at each of its calls; the *)
(* amounts are drawn from both ends and the middle of their ranges.        *)
(***************************************************************************)
baseScrollAmount == 300

ScrollJitters == {0 - 60, 0, 59}

UpScrollAmounts == {50, 100, 149}

ScrollHeights == {600, 1500, 2000}

ViewportHeights == {800}

Max(a, b) == IF a > b THEN a ELSE b

\* window.scrollY after window.scrollBy(0, dy)
ScrollBy(y, dy, docHeight, viewportHeight) ==
    Max(0, Min(y + dy, Max(0, docHeight - viewportHeight)))

InitScroll ==
    /\ InitWith({<<>>}, {1}, {"none"},
                {[globalNavMe |-> FALSE, guestSignInLink |-> FALSE]}, {0}, {FALSE}, {"noHeartbeat"})
    /\ calc = <<>>
    /\ item = <<>>
    /\ paging = <<>>
    /\ stream = <<>>
    /\ scroll \in [totalHeight : ScrollHeights, viewportHeight : ViewportHeights,
                   scrolledHeight : {0}, scrollY : {0}, resolved : {FALSE}]

\* one run of the timer callback scroll()
ScrollStep ==
    /\ ~scroll.resolved
    /\ \E shouldScrollUp \in BOOLEAN, upAmount \in UpScrollAmounts,
          scrollJitter \in ScrollJitters :
         LET up     == shouldScrollUp /\ scroll.scrolledHeight > scroll.viewportHeight
             dy     == IF up THEN 0 - upAmount ELSE baseScrollAmount + scrollJitter
             height == IF up THEN Max(0, scroll.scrolledHeight - upAmount)
                       ELSE scroll.scrolledHeight + dy
             y      == ScrollBy(scroll.scrollY, dy, scroll.totalHeight,
                                scroll.viewportHeight)
         IN  scroll' = [scroll EXCEPT
                 !.scrolledHeight = height,
                 !.scrollY = y,
                 !.resolved = \/ height >= scroll.totalHeight
                              \/ scroll.viewportHeight + y >= scroll.totalHeight]
    /\ UNCHANGED <<pc, cookiesString, maxPages, searchTarget, feedPage, displayedTotal,
                   calc, cdpMayThrow, item, setCookieCalls, feedGotos, setupError,
                   loopVars, pageVars, events, escaped, browserOpen, handlerVars,
                   paging, stream, responseVars>>

NextScroll == ScrollStep

\* the timer of the next step always fires
SpecScroll == InitScroll /\ [][NextScroll]_vars /\ WF_vars(ScrollStep)

(***************************************************************************)
(* extractProfileData alone: the record built from one result item, after  *)
(* the extract* functions have read the item.  An absent text or URL       *)
(* (null) is <<>>.  A profile URL comes from extractProfileUrl: an href    *)
(* with '/in/' cut at its first '?', the headless URL, the URL built from  *)
(* a member id, or none.  The position and company parsed from the title   *)
(* are left out: the job shown for an anonymous member is the title.       *)
(***************************************************************************)
MaxUrlTail == 2

RECURSIVE CollapseSpaces(_)
CollapseSpaces(s) ==
    IF Len(s) < 2 THEN s
    ELSE IF s[1] = " " /\ s[2] = " " THEN CollapseSpaces(Tail(s))
    ELSE <<s[1]>> \o CollapseSpaces(Tail(s))

cleanText(text) == IF text = <<>> THEN <<>> ELSE Trim(CollapseSpaces(text))

LinkedInMember == <<"LinkedIn", " ", "Member">>

HeadlessUrl ==
    <<"https://www.linkedin.com", "/search/results/people/", "headless">>

RawNames ==
    { <<>>, <<"Ann">>, <<" ", "Ann", " ", " ", "Lee">>, LinkedInMember,
      <<"LinkedIn", " ", " ", "Member", " ">> }

RawTitles == { <<>>, <<"Engineer">>, <<" ">> }

RawLocations == { <<>>, <<"Pune">> }

ProfileUrls ==
    {<<>>, HeadlessUrl}
        \cup { <<"https://www.linkedin.com", "/in/">> \o t :
                 t \in SeqsUpTo({"ann", "headless", "?", "x"}, MaxUrlTail) }

isAnonymous(name, profileUrl) ==
    \/ name = <<>>
    \/ name = LinkedInMember
    \/ (profileUrl # <<>> /\ Includes(profileUrl, <<"headless">>))

linkedinId(profileUrl) ==
    IF profileUrl # <<>> /\ Includes(profileUrl, <<"/in/">>)
    THEN SplitOn(SplitOn(profileUrl, "/in/")[2], "?")[1]
    ELSE IF profileUrl # <<>> /\ Includes(profileUrl, <<"headless">>)
    THEN <<"headless">>
    ELSE <<"unknown">>

displayName(name, title, anonymous) ==
    IF ~anonymous THEN name
    ELSE IF title # <<>>
    THEN <<"Anonymous LinkedIn Member", " ", "(">> \o title \o <<")">>
    ELSE <<"Anonymous LinkedIn Member">>

\* what the item adds to profiles: one record or none
BuildRecords(rawName, rawTitle, rawLocation, profileUrl) ==
    LET name      == cleanText(rawName)
        title     == cleanText(rawTitle)
        location  == cleanText(rawLocation)
        anonymous == isAnonymous(name, profileUrl)
        shown     == displayName(name, title, anonymous)
    IN  IF name # <<>> \/ title # <<>> \/ location # <<>> \/ profileUrl # <<>>
        THEN << [name        |-> IF shown # <<>> THEN shown
                                 ELSE <<"Anonymous LinkedIn Member">>,
                 title       |-> IF title # <<>> THEN title ELSE <<"No title listed">>,
                 location    |-> IF location # <<>> THEN location
                                 ELSE <<"No location listed">>,
                 profileUrl  |-> profileUrl,
                 linkedinId  |-> linkedinId(profileUrl),
                 isAnonymous |-> anonymous] >>
        ELSE <<>>

InitRecords ==
    /\ InitWith({<<>>}, {1}, {"none"},
                {[globalNavMe |-> FALSE, guestSignInLink |-> FALSE]}, {0}, {FALSE}, {"noHeartbeat"})
    /\ calc = <<>>
    /\ scroll = <<>>
    /\ item \in [rawName : RawNames, rawTitle : RawTitles, rawLocation : RawLocations,
                 profileUrl : ProfileUrls, parsed : {FALSE}, records : {<<>>}]
    /\ paging = <<>>
    /\ stream = <<>>

\* the body of listItems.forEach for the item
ParseItem ==
    /\ ~item.parsed
    /\ item' = [item EXCEPT
           !.parsed = TRUE,
           !.records = BuildRecords(item.rawName, item.rawTitle, item.rawLocation,
                                    item.profileUrl)]
    /\ UNCHANGED <<pc, cookiesString, maxPages, searchTarget, feedPage, displayedTotal,
                   calc, cdpMayThrow, scroll, setCookieCalls, feedGotos, setupError,
                   loopVars, pageVars, events, escaped, browserOpen, handlerVars,
                   paging, stream, responseVars>>

NextRecords == ParseItem

SpecRecords == InitRecords /\ [][NextRecords]_vars

(***************************************************************************)
(* The construction of pageUrl alone, at the head of an iteration of the   *)
(* page loop.  A URL is its tokens: the path, '?', '&', and for each       *)
(* parameter its name with '=' and its value.                              *)
(***************************************************************************)
MaxParams == 2

SearchPath == "https://www.linkedin.com/search/results/people/"

QueryParams ==
    { <<"keywords=", "x">>, <<"page=", "2">>, <<"start=", "10">>, <<"page=", "x">> }

SearchUrls ==
    {<<SearchPath>>}
        \cup { <<SearchPath, "?">> \o JoinWith(ps, "&") :
                 ps \in SeqsUpTo(QueryParams, MaxParams) \ {<<>>} }

\* the texts that \d+ matches whole
Digits == {ToString(n) : n \in 0..(10 * MaxPages)}

\* u.replace(/page=\d+/, 'page=' + p): the first match is replaced
ReplacePage(u, p) ==
    LET matches == {i \in 1..(Len(u) - 1) : u[i] = "page=" /\ u[i + 1] \in Digits}
    IN  IF matches = {} THEN u
        ELSE LET first == CHOOSE i \in matches : \A j \in matches : i <= j
             IN  [u EXCEPT ![first + 1] = ToString(p)]

BuildPageUrl(searchUrl, p) ==
    LET pageParam  == <<"page=", ToString(p)>>
        startParam == <<"start=", ToString((p - 1) * 10)>>
        replaced   == ReplacePage(searchUrl, p)
        paged ==
            IF p <= 1 THEN searchUrl
            ELSE IF Includes(searchUrl, <<"?">>)
            THEN IF ~Includes(searchUrl, <<"page=">>) /\ ~Includes(searchUrl, <<"start=">>)
                 THEN searchUrl \o <<"&">> \o pageParam \o <<"&">> \o startParam
                 ELSE IF Includes(searchUrl, <<"page=">>)
                 THEN IF ~Includes(replaced, <<"start=">>)
                      THEN replaced \o <<"&">> \o startParam
                      ELSE replaced
                 ELSE searchUrl
            ELSE searchUrl \o <<"?">> \o pageParam \o <<"&">> \o startParam
    IN  paged \o <<IF Includes(paged, <<"?">>) THEN "&" ELSE "?">>
              \o <<"_=", "timestamp", "&", "jitter=", "jitter">>

InitPaging ==
    /\ InitWith({<<>>}, {1}, {"none"},
                {[globalNavMe |-> FALSE, guestSignInLink |-> FALSE]}, {0}, {FALSE},
                {"noHeartbeat"})
    /\ calc = <<>>
    /\ scroll = <<>>
    /\ item = <<>>
    /\ paging \in [searchUrl : SearchUrls, currentPage : 1..MaxPages,
                   built : {FALSE}, pageUrl : {<<>>}]
    /\ stream = <<>>

BuildUrl ==
    /\ ~paging.built
    /\ paging' = [paging EXCEPT
           !.built = TRUE,
           !.pageUrl = BuildPageUrl(paging.searchUrl, paging.currentPage)]
    /\ UNCHANGED <<pc, cookiesString, maxPages, searchTarget, feedPage, displayedTotal,
                   calc, cdpMayThrow, scroll, item, setCookieCalls, feedGotos,
                   setupError, loopVars, pageVars, events, escaped, browserOpen,
                   handlerVars, stream, responseVars>>

NextPaging == BuildUrl

SpecPaging == InitPaging /\ [][NextPaging]_vars

(***************************************************************************)
(* The page loop with the streaming loop of extractProfileData taken one   *)
(* record at a time: the callback runs once per record, and the crawl      *)
(* task is suspended between two records.  A record is known by its page   *)
(* and its place on the page.                                              *)
(***************************************************************************)
PageProfiles(page, n) == [i \in 1..n |-> [page |-> page, idx |-> i]]

StreamTotal(pages) ==
    calculateTotalProfilesToExtract(defaultTotalResults, pages, resultsPerPage)

InitStream ==
    /\ InitWith({<<>>}, {1}, {"none"},
                {[globalNavMe |-> FALSE, guestSignInLink |-> FALSE]}, {0}, {FALSE},
                {"noHeartbeat"})
    /\ calc = <<>>
    /\ scroll = <<>>
    /\ item = <<>>
    /\ paging = <<>>
    /\ stream \in [numPages : 1..MaxPages, currentPage : {1}, allResults : {<<>>},
                   profiles : {<<>>}, extractedProfiles : {<<>>}, i : {0},
                   emitted : {<<>>}, pc : {"page"}]

\* currentPage++ and the loop condition, or a break: 'done' is emitted
StreamNextPage(st, leaves) ==
    IF leaves \/ st.currentPage + 1 > st.numPages
    THEN [st EXCEPT !.pc = "done",
                    !.emitted = Append(@, DoneEvent(st.allResults))]
    ELSE [st EXCEPT !.pc = "page", !.currentPage = @ + 1]

\* a page fails before its extraction: the catch block breaks or lets the
\* loop go on
StreamPageFails ==
    /\ stream.pc = "page"
    /\ \E breaks \in BOOLEAN :
         /\ stream.currentPage = 1 => breaks
         /\ stream' = StreamNextPage(stream, breaks)

\* extractProfileData up to its streaming loop: page.evaluate returns the
\* records of the page, or throws and the function returns hasNoResults
StreamEvaluate ==
    /\ stream.pc = "page"
    /\ \E threw \in BOOLEAN, n \in 0..MaxRecs :
         /\ threw => n = 0
         /\ stream' = [stream EXCEPT !.pc = "streaming", !.profiles = <<>>,
                                     !.extractedProfiles = PageProfiles(stream.currentPage, n),
                                     !.i = 0]

\* one pass of the streaming loop: the callback pushes the record to
\* profiles and calls sendToClient
StreamOne ==
    /\ stream.pc = "streaming"
    /\ stream.i < Len(stream.extractedProfiles)
    /\ LET profile == stream.extractedProfiles[stream.i + 1]
       IN  stream' = [stream EXCEPT
              !.profiles = Append(@, profile),
              !.emitted = @ \o SendToClient(profile,
                                  ProfilesScraped(stream.currentPage, stream.i + 1),
                                  StreamTotal(stream.numPages)),
              !.i = @ + 1]

\* extractProfileData returns; the no-results break, or the append to
\* allResults, the 'extracted' event and the next page
StreamReturn ==
    /\ stream.pc = "streaming"
    /\ stream.i = Len(stream.extractedProfiles)
    /\ IF HasNoResults(Len(stream.extractedProfiles) = 0, stream.profiles)
       THEN stream' = StreamNextPage(stream, TRUE)
       ELSE stream' = StreamNextPage(
                [stream EXCEPT
                    !.allResults = AppendResults(@, stream.profiles),
                    !.emitted = Append(@, Ev("progress", "extracted", stream.currentPage,
                                             "", stream.profiles, Len(stream.profiles)))],
                FALSE)

StreamStep ==
    /\ \/ StreamPageFails
       \/ StreamEvaluate
       \/ StreamOne
       \/ StreamReturn
    /\ UNCHANGED <<pc, cookiesString, maxPages, searchTarget, feedPage, displayedTotal,
                   calc, cdpMayThrow, scroll, item, paging, setCookieCalls, feedGotos,
                   setupError, loopVars, pageVars, events, escaped, browserOpen,
                   handlerVars, responseVars>>

NextStream == StreamStep

SpecStream == InitStream /\ [][NextStream]_vars

(***************************************************************************)
(* Definitions used to state the properties.                               *)
(***************************************************************************)
IsPrefix(s, t) == Len(s) <= Len(t) /\ SubSeq(t, 1, Len(s)) = s

\* the records of the pages reported as extracted, in the order reported
RECURSIVE ExtractedRecords(_)
ExtractedRecords(evs) ==
    IF evs = <<>> THEN <<>>
    ELSE IF Head(evs).status = "extracted"
         THEN Head(evs).recs \o ExtractedRecords(Tail(evs))
         ELSE ExtractedRecords(Tail(evs))

EventIdx(status) == {i \in 1..Len(events) : events[i].status = status}

DoneIdx == {i \in 1..Len(events) : events[i].type = "done"}

\* the per-page 'error' events
PageErrorIdx ==
    {i \in 1..Len(events) :
        events[i].type = "error" /\ events[i].status = "error" /\ events[i].page > 0}

Terminated == pc \in {"closing", "finished"}

\* a raw cookie string holds an authentication token: one of its
\* ';'-separated segments is, after leading blanks, li_at = and a value that
\* is not blank
HasAuthToken(s) ==
    \E a \in 1..Len(s), b \in 1..Len(s) :
        /\ a <= b
        /\ \A j \in a..b : s[j] # ";"
        /\ a = 1 \/ s[a - 1] = ";"
        /\ b = Len(s) \/ s[b + 1] = ";"
        /\ \E k \in a..b :
              /\ \A j \in a..(k - 1) : s[j] = " "
              /\ s[k] = "li_at"
              /\ k + 1 <= b
              /\ s[k + 1] = "="
              /\ \E m \in (k + 2)..b : s[m] # " "

ClassifiedFatal == {"SessionExpired", "LoginRedirect", "Captcha", "RateLimit"}

C2_FatalClassEndsLoop ==
    [][(error \in ClassifiedFatal) => ~(pc' = "pageStart")]_vars

(***************************************************************************)
(* C3.  When three pages with consecutive indices have each failed before  *)
(* their extraction (navigation attempts exhausted, or a failed check      *)
(* after navigation), the third failure is followed by an 'error' event    *)
(* with status 'stopped', then by 'done'; nothing is navigated afterwards, *)
(* and the results of 'done' are exactly the records of the pages          *)
(* extracted before, in their original order.                              *)
(***************************************************************************)
\* the 'error' events of pages that failed before their extraction began
FailedBeforeExtractIdx ==
    {i \in PageErrorIdx :
        \A j \in EventIdx("extracting") : events[j].page # events[i].page}

C5_NoResultsEndsQuietly ==
    /\ (lastSuccessfulPageNumber = currentPage /\ profiles = <<>> /\ error = "none")
          => pc \in {"noResults", "closing", "finished"}
    /\ endOfResultsCheck = "explicit" =>
          LET k == Len(events)
          IN  /\ Terminated
              /\ profiles = <<>>
              /\ consecutiveErrorCount = 0
              /\ k >= 2
              /\ events[k].type = "done"
              /\ events[k - 1] =
                    Ev("progress", "no_more_results", currentPage, "explicit", <<>>, 0)
              /\ \A i \in PageErrorIdx : events[i].page # currentPage
              /\ \A i \in EventIdx("navigating") : events[i].page <= currentPage

C5_Witness ==
    /\ pc = "finished"
    /\ endOfResultsCheck = "explicit"
    /\ currentPage > 2
    /\ PageErrorIdx # {}
    /\ allResults # <<>>

InPageOrder(recs) == \A i \in 1..Len(recs) : recs[i].idx = i

C7_ResultsAppendOnlyOrdered ==
    /\ [](/\ allResults = ExtractedRecords(events)
          /\ \A i \in EventIdx("extracted") :
                /\ InPageOrder(events[i].recs)
                /\ \A j \in EventIdx("extracted") :
                      i < j => events[i].page < events[j].page
          /\ \A i \in DoneIdx : events[i].recs = allResults)
    /\ [][IsPrefix(allResults, allResults')]_vars

C7_Witness ==
    /\ pc = "finished"
    /\ DoneIdx # {}
    /\ Cardinality(EventIdx("extracted")) >= 2
    /\ \E i \in 1..Len(allResults), j \in 1..Len(allResults) :
          i < j /\ allResults[i] = allResults[j] /\ allResults[i].idx = 2

(***************************************************************************)
(* C8.  Partial results survive a fatal failure: when the crawl is aborted *)
(* with a 'blocked' event on a page after the first, the 'done' event that *)
(* follows carries every record of the pages extracted before.             *)
(***************************************************************************)
C8_PartialResultsDelivered ==
    \A i \in EventIdx("blocked") :
        /\ i >= 2
        /\ events[i - 1].type = "error" /\ events[i - 1].status = "error"
        /\ Len(events) = i + 1
        /\ events[i + 1].type = "done"
        /\ events[i + 1].recs = ExtractedRecords(SubSeq(events, 1, i))
        /\ events[i + 1].n = Len(ExtractedRecords(SubSeq(events, 1, i)))
        /\ events[i + 1].n =
              Cardinality({j \in EventIdx("profile") :
                  \E e \in EventIdx("extracted") : j < e})

C8_Witness ==
    /\ pc = "finished"
    /\ EventIdx("blocked") # {}
    /\ currentPage > 2
    /\ error \in {"Captcha", "SessionExpired"}
    /\ Len(events[Len(events)].recs) >= 2

(***************************************************************************)
(* C9.  Once the client has closed the request while the crawl is in its   *)
(* inter-page delay, no later page is navigated: the crawl is from then on *)
(* only in that delay or ending.                                           *)
(***************************************************************************)
C9_CancelInDelayHalts ==
    cancelInDelay => pc \in {"pageDelay", "closing", "finished"}

(***************************************************************************)
(* C10.  After the client has closed the request, the crawl still ends     *)
(* with a terminal event that carries the records accumulated.             *)
(***************************************************************************)
C10_CancelStillReportsResults ==
    (pc = "finished" /\ closed /\ setupError = "none") =>
        /\ DoneIdx # {}
        /\ \A i \in DoneIdx : events[i].recs = allResults

(***************************************************************************)
(* C11.  One page is in flight at a time.  The page index advances only    *)
(* when an inter-page or error delay has run out, by one, and into the     *)
(* start of the next page or the end of the loop; page.goto on a search    *)
(* page is issued only in the navigation step, which is entered only from  *)
(* the start of a page; and in the event stream every page navigated after *)
(* another comes after that page's 'extracted' or 'error' event, and after *)
(* every extraction begun before it has been reported as done or failed.   *)
(***************************************************************************)
PageSettled(p, from, to) ==
    \E k \in from..to :
        /\ events[k].page = p
        /\ events[k].status \in {"extracted", "error"}

C11_OnePageInFlight ==
    /\ [][(currentPage' # currentPage) =>
            /\ pc \in {"pageDelay", "errorDelay"}
            /\ currentPage' = currentPage + 1
            /\ pc' \in {"pageStart", "closing"}]_vars
    /\ [][(navigationAttempts' > navigationAttempts) => pc = "navigate"]_vars
    /\ [][(pc' = "navigate" /\ pc # "navigate") => pc = "pageStart"]_vars
    /\ [][(pc' = "extract" /\ pc # "extract") => pc = "settle"]_vars
    /\ [](\A j \in EventIdx("navigating") :
            /\ \A i \in EventIdx("navigating") :
                  i < j => events[i].page < events[j].page
            /\ events[j].page > 1 => PageSettled(events[j].page - 1, 1, j - 1)
            /\ \A i \in EventIdx("extracting") :
                  i < j => PageSettled(events[i].page, i + 1, j - 1))

C11_Witness ==
    /\ pc = "finished"
    /\ Cardinality(EventIdx("navigating")) >= 3
    /\ \E i \in PageErrorIdx, j \in EventIdx("extracted"), k \in EventIdx("navigating") :
          i < j /\ j < k

(***************************************************************************)
(* C12.  The totalProfiles reported with the records of one crawl is one   *)
(* value: every extracting_progress event of the crawl carries the same    *)
(* totalProfiles, whatever count the heading of each page shows.           *)
(***************************************************************************)
ProgressIdx == EventIdx("extracting_progress")

C12_TotalHeldFixed ==
    \A i \in ProgressIdx, j \in ProgressIdx :
        events[i].totalProfiles = events[j].totalProfiles

(***************************************************************************)
(* C13.  The progress percentage of successive extracting_progress events  *)
(* of one crawl never decreases.                                           *)
(***************************************************************************)
C13_ProgressMonotonic ==
    \A i \in ProgressIdx, j \in ProgressIdx :
        i < j => events[i].progress <= events[j].progress

(***************************************************************************)
(* C14.  Every extracting_progress event carries                           *)
(* min(100, floor(100 * scrapedSoFar / totalProfiles)), where scrapedSoFar *)
(* is the number of records emitted in the crawl up to and including the   *)
(* record the event reports, and the value is in 0..100.                   *)
(***************************************************************************)
ScrapedSoFar(i) == Cardinality({j \in EventIdx("profile") : j < i})

C14_ProgressOfRunningCount ==
    \A i \in ProgressIdx :
        /\ events[i].progress \in 0..100
        /\ events[i].n = ScrapedSoFar(i)
        /\ events[i].progress =
              Min(100, (100 * ScrapedSoFar(i)) \div events[i].totalProfiles)

(***************************************************************************)
(* C15.  calculateTotalProfilesToExtract(totalAvailable, maxPages,         *)
(* resultsPerPage) returns the least of totalAvailable,                    *)
(* maxPages * resultsPerPage and 1000, for positive arguments; for         *)
(* (13700000, 5, 10) it returns 50.                                        *)
(***************************************************************************)
LeastOf(S) == CHOOSE x \in S : \A y \in S : x <= y

C15_TotalIsMinimum ==
    calc.result # 0 =>
        /\ calc.result =
              LeastOf({calc.totalAvailable, calc.maxPages * calc.resultsPerPage, 1000})
        /\ (calc.totalAvailable = 13700000 /\ calc.maxPages = 5
              /\ calc.resultsPerPage = 10) => calc.result = 50

C15_Witness ==
    /\ calc.result = 50
    /\ calc.totalAvailable = 13700000
    /\ calc.maxPages = 5
    /\ calc.resultsPerPage = 10

(***************************************************************************)
(* C16.  A page whose navigation, checks and extraction complete without   *)
(* throwing leaves consecutiveErrorCount at 0; and a 'stopped' event       *)
(* follows only the failures of three pages with consecutive indices, of   *)
(* which the last two never reached their extraction, with no page         *)
(* reported as extracted among or after them.                              *)
(***************************************************************************)
C16_SuccessResetsCount ==
    /\ pc \in {"noResults", "pageDelay"} => consecutiveErrorCount = 0
    /\ (lastSuccessfulPageNumber = currentPage /\ error = "none")
          => consecutiveErrorCount = 0
    /\ \A s \in EventIdx("stopped") :
          /\ s - 1 \in PageErrorIdx
          /\ LET q == events[s - 1].page
             IN  /\ \E i \in PageErrorIdx, j \in PageErrorIdx :
                       /\ i < j /\ j < s - 1
                       /\ events[i].page = q - 2
                       /\ events[j].page = q - 1
                 /\ \A e \in EventIdx("extracted") : events[e].page < q - 2
                 /\ \A e \in EventIdx("extracting") : events[e].page <= q - 2
                 /\ events[s].n <= q - 2

C16_Witness ==
    /\ pc = "finished"
    /\ EventIdx("extracted") # {}
    /\ \E s \in EventIdx("stopped") :
          /\ events[s].n = events[s - 1].page - 2
          /\ \E e \in EventIdx("extracting") : events[e].page = events[s].n

(***************************************************************************)
(* C17.  When the feed page shows no element that only a session has (no   *)
(* .global-nav__me), session validation fails and performPeopleSearch is   *)
(* never started: the session is not reported as validated and no search   *)
(* page is navigated.                                                      *)
(***************************************************************************)
C17_NoIdentityElementRejected ==
    ~feedPage.globalNavMe =>
        /\ EventIdx("validated") = {}
        /\ EventIdx("navigating") = {}
        /\ pc \in {"request", "rejected", "launch", "setCookies", "validate",
                   "closing", "finished"}

(***************************************************************************)
(* C18.  A request with no search target, and a request whose search       *)
(* target does not parse as a URL, end without any page.goto: neither the  *)
(* feed page nor a search page is navigated.                               *)
(***************************************************************************)
C18_MisuseIssuesNoNavigation ==
    searchTarget \in {"none", "malformed"} =>
        /\ feedGotos = 0
        /\ navigationAttempts = 0
        /\ EventIdx("navigating") = {}

(***************************************************************************)
(* C19.  Every invocation of searchLinkedInPeople eventually emits a       *)
(* terminal event: 'done', or, when session setup has failed, the 'error'  *)
(* event of searchLinkedInPeople.                                          *)
(***************************************************************************)
TerminalEventEmitted ==
    \/ DoneIdx # {}
    \/ setupError # "none" /\ \E i \in 1..Len(events) : events[i] = OuterError

C19_EventuallyTerminalEvent == (pc = "launch") ~> TerminalEventEmitted

\* the same, for the crawls whose client keeps the request open
C19_TerminalEventUnlessClosed == (pc = "launch") ~> (TerminalEventEmitted \/ closed)

(***************************************************************************)
(* C20.  An attempt whose page has a login or checkpoint URL is classified *)
(* as expired (the session-expired error of the navigation catch, or the   *)
(* login-redirect error of the checks), never as blocked by a CAPTCHA or   *)
(* by rate limiting, whatever block signatures the page also shows.        *)
(***************************************************************************)
C20_LoginUrlClassifiedExpired ==
    (pc = "catch" /\ url \in LoginUrls /\ error \in ClassifiedFatal)
        => error \in {"SessionExpired", "LoginRedirect"}

(***************************************************************************)
(* C21.  A page whose URL is neither on the search path nor a login or     *)
(* checkpoint URL is never taken as loaded: the checks after navigation,   *)
(* the settling and the extraction run on it only when its URL is on the   *)
(* search path, also when page.goto has returned after a redirect.         *)
(***************************************************************************)
C21_OffSearchNeverLoaded ==
    (pc \in {"rateCheck", "settle", "extract"} /\ url \notin LoginUrls)
        => url = "search"

C23_TimeoutOnSearchPathIsLoaded ==
    /\ [](navError /\ url = "search" => pc = "rateCheck")
    /\ [][(pc = "navigate" /\ navError' /\ url' = "search") =>
              /\ pc' = "rateCheck"
              /\ UNCHANGED <<events, error, consecutiveErrorCount>>]_vars
    /\ [][(pc \in {"rateCheck", "settle", "extract", "noResults", "pageDelay"}) =>
              UNCHANGED <<navigationAttempts, gotoCalls>> \/ pc' = "pageStart"]_vars

C23_Witness ==
    /\ pc = "rateCheck"
    /\ navError
    /\ url = "search"
    /\ gotoCalls = 1

(***************************************************************************)
(* C24.  Every call of page.goto for a page after the first follows a      *)
(* 'retry_navigation' event of its own, and every page that has failed has *)
(* an 'error' event of its own by the time the loop has moved on or ended. *)
(***************************************************************************)
FailedPage == IF currentPage > NumPages THEN currentPage - 1 ELSE currentPage

FailureReported == \E i \in PageErrorIdx : events[i].page = FailedPage

C24_RetriesAndFailuresVisible ==
    /\ gotoCalls <= retryNotices + 1
    /\ (error # "none" /\ pc \in {"errorDelay", "closing", "finished"})
          => FailureReported

\* the same, for the failures caught while the handler's listeners are attached
C24_VisibleWhileListening ==
    /\ gotoCalls <= retryNotices + 1
    /\ (error # "none" /\ pc \in {"errorDelay", "closing", "finished"} /\ ~escaped)
          => FailureReported

(***************************************************************************)
(* C25.  A page whose extraction threw never ends the crawl with           *)
(* 'no_more_results'.                                                      *)
(***************************************************************************)
C25_NoResultsOnlyWhenAbsent ==
    [][(pc = "noResults" /\ resultError) =>
          \A i \in 1..Len(events') : events'[i].status # "no_more_results"]_vars

(***************************************************************************)
(* C26.  The step loop of humanLikeScroll ends, whatever the random        *)
(* choices of its steps are.                                               *)
(***************************************************************************)
C26_ScrollTerminates == <>(scroll.resolved)

(***************************************************************************)
(* C27.  A failure inside humanLikeScroll never reaches the catch block of *)
(* the page loop: no page fails with it.                                   *)
(***************************************************************************)
C27_ScrollFailureNeverSurfaces == error # "ScrollFailed"

(***************************************************************************)
(* C28.  An item adds a record exactly when its title, its location or its *)
(* profile URL resolved: a name alone adds none.                           *)
(***************************************************************************)
C28_RecordNeedsMoreThanName ==
    item.parsed =>
        (item.records # <<>>
            <=> \/ cleanText(item.rawTitle) # <<>>
                \/ cleanText(item.rawLocation) # <<>>
                \/ item.profileUrl # <<>>)

(***************************************************************************)
(* C29.  The linkedinId of a record is decided by its profile URL alone: a *)
(* URL with '/in/' gives what follows the '/in/' up to the query, and      *)
(* every other URL gives the id that an absent URL gives.                  *)
(***************************************************************************)
AbsentUrlId == <<"unknown">>

\* the tokens of u that follow its first '/in/', up to the next '/in/' or '?'
SegmentAfterIn(u) ==
    LET start == CHOOSE i \in 1..Len(u) :
                    u[i] = "/in/" /\ \A j \in 1..(i - 1) : u[j] # "/in/"
        stops == {i \in (start + 1)..Len(u) : u[i] \in {"/in/", "?"}}
        end   == IF stops = {} THEN Len(u)
                 ELSE (CHOOSE i \in stops : \A j \in stops : i <= j) - 1
    IN  SubSeq(u, start + 1, end)

C29_IdIsFunctionOfUrl ==
    (item.parsed /\ item.records # <<>>) =>
        item.records[1].linkedinId =
            IF \E i \in 1..Len(item.profileUrl) : item.profileUrl[i] = "/in/"
            THEN SegmentAfterIn(item.profileUrl)
            ELSE AbsentUrlId

(***************************************************************************)
(* C30.  A record is marked anonymous exactly when no reliable name        *)
(* resolved for it: the name is empty or is 'LinkedIn Member'.  A record   *)
(* with a resolved name is not anonymous, whatever its URL.                *)
(***************************************************************************)
C30_AnonymousIffNoName ==
    (item.parsed /\ item.records # <<>>) =>
        (item.records[1].isAnonymous
            <=> cleanText(item.rawName) \in {<<>>, LinkedInMember})

(***************************************************************************)
(* C31.  For a page p > 1 the URL navigated to carries the parameters      *)
(* page=p and start=(p-1)*10, whatever the query of the search URL is.     *)
(***************************************************************************)
CarriesParam(u, name, value) ==
    \E i \in 2..(Len(u) - 1) :
        u[i - 1] \in {"?", "&"} /\ u[i] = name /\ u[i + 1] = value

C31_PageUrlCarriesPageAndStart ==
    (paging.built /\ paging.currentPage > 1) =>
        /\ CarriesParam(paging.pageUrl, "page=", ToString(paging.currentPage))
        /\ CarriesParam(paging.pageUrl, "start=",
                        ToString((paging.currentPage - 1) * 10))

\* the same, for the search URLs that have neither page= nor start=
C31_HoldsWithoutPagination ==
    (/\ paging.built /\ paging.currentPage > 1
     /\ ~Includes(paging.searchUrl, <<"page=">>)
     /\ ~Includes(paging.searchUrl, <<"start=">>)) =>
        /\ CarriesParam(paging.pageUrl, "page=", ToString(paging.currentPage))
        /\ CarriesParam(paging.pageUrl, "start=",
                        ToString((paging.currentPage - 1) * 10))

(***************************************************************************)
(* C32.  A failure on page 1 ends the crawl: the count is 1, no page after *)
(* the first is navigated, nothing has been collected, no 'stopped' event  *)
(* is emitted, a 'blocked' event only for a failure that stops at once,    *)
(* and once the failure has been reported with its 'error' event, 'done'   *)
(* follows with an empty list.                                             *)
(***************************************************************************)
FirstPageFailed == currentPage = 1 /\ error # "none"

FirstPageReported == \E i \in PageErrorIdx : events[i].page = 1

PagedIdx == {i \in 1..Len(events) : events[i].page > 0}

C33_FailedPageSkipped ==
    /\ \A i \in EventIdx("navigating"), j \in EventIdx("navigating") :
          i < j => events[i].page < events[j].page
    /\ allResults = ExtractedRecords(events)
    /\ \A i \in PageErrorIdx :
          /\ \A e \in EventIdx("extracted") : events[e].page # events[i].page
          /\ \A j \in PagedIdx :
                j > i => /\ events[j].page > events[i].page
                         /\ (\A k \in PagedIdx : ~(i < k /\ k < j))
                               => events[j].page = events[i].page + 1

C33_Witness ==
    /\ pc = "finished"
    /\ allResults # <<>>
    /\ \E i \in PageErrorIdx, j \in EventIdx("navigating"), e \in EventIdx("extracted") :
          /\ events[i].page = 2
          /\ events[j].page = 3
          /\ events[e].page = 3

(***************************************************************************)
(* C34.  A crawl emits at most one 'stopped' or 'blocked' event, never     *)
(* both, and no 'navigating' event after it; the budget is tested first:   *)
(* a 'blocked' event is emitted only below the budget of consecutive       *)
(* failures, and a failure that reaches the budget is reported as          *)
(* 'stopped' whatever its message, a session-expired or CAPTCHA one        *)
(* included.                                                               *)
(***************************************************************************)
AbortIdx == EventIdx("stopped") \cup EventIdx("blocked")

C34_OneAbortBudgetFirst ==
    /\ Cardinality(AbortIdx) <= 1
    /\ \A a \in AbortIdx :
          /\ \A j \in EventIdx("navigating") : j < a
          /\ a > 1 /\ events[a - 1].type = "error" /\ events[a - 1].status = "error"
          /\ events[a].status = "blocked" => consecutiveErrorCount < MAX_CONSECUTIVE_ERRORS
          /\ events[a].status = "stopped" => consecutiveErrorCount = MAX_CONSECUTIVE_ERRORS
    /\ (pc \in {"closing", "finished"} /\ ~escaped /\ setupError = "none"
          /\ consecutiveErrorCount = MAX_CONSECUTIVE_ERRORS)
         => EventIdx("stopped") # {}

\* the third consecutive failure is a session-expired or CAPTCHA one
C34_Witness ==
    /\ pc = "finished"
    /\ error \in {"SessionExpired", "Captcha"}
    /\ consecutiveErrorCount = MAX_CONSECUTIVE_ERRORS
    /\ EventIdx("stopped") # {}
    /\ EventIdx("blocked") = {}
    /\ DoneIdx # {}

(***************************************************************************)
(* C35.  In every state of the page loop consecutiveErrorCount is between  *)
(* 0 and 3; lastSuccessfulPageNumber is the largest page whose extraction  *)
(* has returned (0 if none) and is never greater than currentPage; the     *)
(* lastSuccessfulPage that a 'stopped' or 'blocked' event reports is less  *)
(* than the page that failed, which the 'error' event before it names.     *)
(***************************************************************************)
\* the pages whose extraction has returned: extraction was announced, and
\* the crawl is no longer waiting for it
ExtractionReturned ==
    {events[i].page : i \in {j \in EventIdx("extracting") :
                                ~(pc = "extract" /\ events[j].page = currentPage)}}

LargestOf(S) == IF S = {} THEN 0 ELSE CHOOSE q \in S : \A r \in S : r <= q

C35_CountAndLastPageInRange ==
    /\ consecutiveErrorCount \in 0..MAX_CONSECUTIVE_ERRORS
    /\ lastSuccessfulPageNumber = LargestOf(ExtractionReturned)
    /\ lastSuccessfulPageNumber <= currentPage
    /\ \A a \in AbortIdx :
          /\ events[a].n = lastSuccessfulPageNumber
          /\ events[a].n < events[a - 1].page

\* a crawl stopped on page 4 that reports page 1 as the last successful one
C35_Witness ==
    /\ pc = "finished"
    /\ consecutiveErrorCount = MAX_CONSECUTIVE_ERRORS
    /\ lastSuccessfulPageNumber = 1
    /\ \E a \in EventIdx("stopped") : events[a].n = 1 /\ events[a - 1].page = 4

(***************************************************************************)
(* C36.  allResults is always a prefix of the records emitted so far as    *)
(* 'profile' events, in the same order, and once 'done' is emitted the     *)
(* two sequences are equal and are the results the 'done' event carries.   *)
(***************************************************************************)
\* the records of the 'profile' events, in the order emitted
RECURSIVE ProfileRecords(_)
ProfileRecords(evs) ==
    IF evs = <<>> THEN <<>>
    ELSE IF Head(evs).type = "profile"
         THEN Head(evs).recs \o ProfileRecords(Tail(evs))
         ELSE ProfileRecords(Tail(evs))

C36_ResultsFollowStream ==
    /\ IsPrefix(stream.allResults, ProfileRecords(stream.emitted))
    /\ stream.pc = "done" =>
          /\ stream.allResults = ProfileRecords(stream.emitted)
          /\ stream.emitted[Len(stream.emitted)] = DoneEvent(stream.allResults)

\* 'done' after the records of two pages were streamed and appended
C36_Witness ==
    /\ stream.pc = "done"
    /\ Len(stream.allResults) > MaxRecs
    /\ stream.allResults = ProfileRecords(stream.emitted)

(***************************************************************************)
(* C37.  When setCookies or validateSession throws, performPeopleSearch    *)
(* is not invoked: the crawl goes to the close of the browser, its page    *)
(* loop has not started, no 'navigating', 'profile' or 'done' event is     *)
(* emitted, and what reports the failure is the 'error' event of the       *)
(* function that threw followed by the 'error' event of                    *)
(* searchLinkedInPeople, which is the last event of the crawl.             *)
(***************************************************************************)
SessionSetupThrew == setupError \in {"MissingToken", "FeedGoto", "NotLoggedIn"}

C37_NoSearchAfterSetupFailure ==
    SessionSetupThrew =>
        /\ pc \in {"closing", "finished"}
        /\ currentPage = 1 /\ allResults = <<>> /\ gotoCalls = 0
        /\ EventIdx("navigating") = {}
        /\ EventIdx("profile") = {}
        /\ DoneIdx = {}
        /\ ~escaped =>
              /\ Len(events) >= 2
              /\ events[Len(events)] = OuterError
              /\ events[Len(events) - 1] \in
                    {ErrorEvent("error", 0, "setCookies", 0),
                     ErrorEvent("error", 0, "validateSession", 0)}

\* the feed page shows a guest: validateSession threw and was reported
C37_Witness ==
    /\ pc = "finished"
    /\ setupError = "NotLoggedIn"
    /\ ~escaped
    /\ events[Len(events)] = OuterError
    /\ events[Len(events) - 1] = ErrorEvent("error", 0, "validateSession", 0)

(***************************************************************************)
(* C38.  A launched browser is closed, once, after the last event of the   *)
(* crawl, however the crawl task leaves its try block: the browser is      *)
(* opened only by the launch and closed only by the finally block, which   *)
(* runs once and after which nothing is emitted and nothing runs; and a    *)
(* browser that is open is closed later, also when an exception has left   *)
(* performPeopleSearch or the catch of searchLinkedInPeople because the    *)
(* client closed the request and emit('error') threw.                      *)
(***************************************************************************)
C38_BrowserClosedOnce ==
    /\ [](pc = "finished" => ~browserOpen)
    /\ [](browserOpen => pc \notin {"request", "rejected", "launch", "finished"})
    /\ [][browserOpen' # browserOpen =>
            \/ pc = "launch" /\ browserOpen'
            \/ pc = "closing" /\ pc' = "finished" /\ ~browserOpen']_vars
    /\ [][pc = "finished" => (pc' = "finished" /\ events' = events)]_vars
    /\ (browserOpen ~> ~browserOpen)

\* the client closed the request, a page failed, emit('error') threw out of
\* performPeopleSearch and out of the outer catch, and the browser is closed
C38_Witness ==
    /\ pc = "finished"
    /\ escaped
    /\ closed
    /\ setupError = "none"
    /\ consecutiveErrorCount > 0
    /\ ~browserOpen

(***************************************************************************)
(* C39.  Whatever the order of the 'progress', 'error' and 'done'          *)
(* listeners, the heartbeat and the client-close callback, the handler     *)
(* calls res.end at most once and never calls res.write after res.end;     *)
(* isResponseEnded is set exactly when res.end has been called.            *)
(***************************************************************************)
C39_EndOnceNoWriteAfterEnd ==
    /\ response.endCalls <= 1
    /\ response.lateWrites = 0
    /\ response.isResponseEnded <=> response.endCalls = 1

\* a page error ended the response; 'done', the close of the request and a
\* heartbeat came after it
C39_Witness ==
    /\ response.endCalls = 1
    /\ PageErrorIdx # {}
    /\ DoneIdx # {}
    /\ ~escaped
    /\ closed
    /\ heartbeatInterval = "cleared"

(***************************************************************************)
(* C40.  The first 'error' event of a crawl ends the response, a per-page  *)
(* one with status 'error' included: once any 'error' event has been       *)
(* emitted res.end has been called, and nothing the crawl emits later      *)
(* (progress of later pages, 'stopped', 'blocked', 'done') is written.     *)
(***************************************************************************)
ErrorTypeIdx == {i \in 1..Len(events) : events[i].type = "error"}

C40_FirstErrorEndsResponse ==
    ErrorTypeIdx # {} =>
        /\ response.isResponseEnded
        /\ response.endCalls = 1
        /\ response.lateWrites = 0

\* page 2 failed, page 3 was extracted and 'done' carries records, and the
\* client, which has not closed the request, was sent none of it
C40_Witness ==
    /\ ~closed
    /\ response.isResponseEnded
    /\ \E i \in PageErrorIdx, e \in EventIdx("extracted"), d \in DoneIdx :
          /\ events[i].page = 2
          /\ events[e].page = 3
          /\ i < e /\ e < d
          /\ events[d].recs # <<>>
====
